---- MODULE Spec2Model ----
(***************************************************************************)
(* Model of the miden-name-service backend: the word codec (serde.rs),    *)
(* the cache store (db.rs), the request handlers (handler.rs), the        *)
(* gateway operations (service.rs) and the client worker loop (main.rs).  *)
(*                                                                         *)
(* Strings are sequences of bytes (0..255), the UTF-8 encoding of the     *)
(* Rust String.  A Felt is the sequence of the 8 big-endian bytes of its  *)
(* canonical value, a Word is a sequence of 4 Felts.                      *)
(***************************************************************************)
EXTENDS Integers, Sequences, FiniteSets, TLC

(***************************************************************************)
(* Bounds of the model.                                                    *)
(***************************************************************************)
\* number of inbound HTTP calls over a run
MaxCalls == 2

\* number of environment events over a run: a failed cache operation, a failed
\* ledger step, a malformed ledger reply, a caller that goes away
MaxFaults == 1

\* capacity of the mpsc channel, main.rs:62
QueueCap == 32

\* serde.rs:10, the largest byte length str_to_word accepts
MaxStrLen == 24

\* serde.rs:12, the size of the padded buffer
WordBytes == 32

(***************************************************************************)
(* Byte-string helpers.                                                    *)
(***************************************************************************)
Rep(b, n) == [i \in 1..n |-> b]

\* a truncate that leaves the buffer as it is
TruncateNone(bytes, len) == bytes

\* Vec::truncate(len): keeps the first len elements, no effect if len >= length
Truncate(bytes, len) == IF len >= Len(bytes) THEN bytes ELSE SubSeq(bytes, 1, len)

(***************************************************************************)
(* Felt::new(u64) reduces modulo the Goldilocks prime p = 2^64 - 2^32 + 1 *)
(* and as_int() returns the canonical value.  On the 8 big-endian bytes:  *)
(* value >= p iff the high 32 bits are all ones and the low 32 bits are   *)
(* non-zero, and then value - p = low32 - 1.                               *)
(***************************************************************************)
Dec32(b) ==
    IF b[4] > 0 THEN <<b[1], b[2], b[3], b[4] - 1>>
    ELSE IF b[3] > 0 THEN <<b[1], b[2], b[3] - 1, 255>>
    ELSE IF b[2] > 0 THEN <<b[1], b[2] - 1, 255, 255>>
    ELSE <<b[1] - 1, 255, 255, 255>>

FeltNew(chunk) ==
    IF SubSeq(chunk, 1, 4) = <<255, 255, 255, 255>> /\ SubSeq(chunk, 5, 8) # <<0, 0, 0, 0>>
    THEN <<0, 0, 0, 0>> \o Dec32(SubSeq(chunk, 5, 8))
    ELSE chunk

\* Word::default(): four zero field elements
ZeroWord == [i \in 1..4 |-> Rep(0, 8)]

(***************************************************************************)
(* serde.rs str_to_word.  The assert on line 10 panics for longer input:  *)
(* StrFits is its condition and callers model the panic.                  *)
(***************************************************************************)
\* a length check against the part of the buffer before the length byte
StrFitsBuffer(s) == Len(s) <= WordBytes - 1

StrFits(s) == Len(s) <= MaxStrLen

\* a buffer with the length byte right behind the text
PaddedBytesLengthNext(s) == s \o <<Len(s)>> \o Rep(0, WordBytes - 1 - Len(s))

\* lines 12-14: the text, zero padding, and the length in byte 31
PaddedBytes(s) == s \o Rep(0, WordBytes - 1 - Len(s)) \o <<Len(s)>>

str_to_word(s) ==
    [i \in 1..4 |-> FeltNew(SubSeq(PaddedBytes(s), 8 * (i - 1) + 1, 8 * i))]

(***************************************************************************)
(* UTF-8 validation and String::from_utf8_lossy.  Utf8Step(b, i) is the   *)
(* length of the valid scalar starting at i, or the negated length of the *)
(* maximal invalid prefix that lossy decoding replaces by one U+FFFD.     *)
(***************************************************************************)
IsCont(b, i) == i <= Len(b) /\ b[i] >= 128 /\ b[i] <= 191

InRange(b, i, lo, hi) == i <= Len(b) /\ b[i] >= lo /\ b[i] <= hi

Utf8Step(b, i) ==
    LET c == b[i] IN
    IF c < 128 THEN 1
    ELSE IF c >= 194 /\ c <= 223 THEN (IF IsCont(b, i + 1) THEN 2 ELSE -1)
    ELSE IF c >= 224 /\ c <= 239 THEN
        LET ok2 == \/ c = 224 /\ InRange(b, i + 1, 160, 191)
                   \/ c >= 225 /\ c <= 236 /\ IsCont(b, i + 1)
                   \/ c = 237 /\ InRange(b, i + 1, 128, 159)
                   \/ c >= 238 /\ IsCont(b, i + 1)
        IN IF ~ok2 THEN -1 ELSE IF ~IsCont(b, i + 2) THEN -2 ELSE 3
    ELSE IF c >= 240 /\ c <= 244 THEN
        LET ok2 == \/ c = 240 /\ InRange(b, i + 1, 144, 191)
                   \/ c >= 241 /\ c <= 243 /\ IsCont(b, i + 1)
                   \/ c = 244 /\ InRange(b, i + 1, 128, 143)
        IN IF ~ok2 THEN -1
           ELSE IF ~IsCont(b, i + 2) THEN -2
           ELSE IF ~IsCont(b, i + 3) THEN -3 ELSE 4
    ELSE -1

\* U+FFFD REPLACEMENT CHARACTER in UTF-8
Replacement == <<239, 191, 189>>

RECURSIVE LossyFrom(_, _)
LossyFrom(b, i) ==
    IF i > Len(b) THEN <<>>
    ELSE LET n == Utf8Step(b, i) IN
         IF n > 0 THEN SubSeq(b, i, i + n - 1) \o LossyFrom(b, i + n)
         ELSE Replacement \o LossyFrom(b, i - n)

\* String::from_utf8(bytes).unwrap_or_else(|e| String::from_utf8_lossy(..)):
\* valid input is returned unchanged by LossyFrom, invalid input is repaired
FromUtf8OrLossy(bytes) == LossyFrom(bytes, 1)

(***************************************************************************)
(* serde.rs word_to_str.                                                   *)
(***************************************************************************)
word_to_str(w) ==
    LET len == w[4][8]
        bytes == w[1] \o w[2] \o w[3] \o w[4]
    IN FromUtf8OrLossy(Truncate(bytes, len))

(***************************************************************************)
(* str::trim().is_empty(): true iff every char has the Unicode White_Space *)
(* property.  WsLen(b, i) is the byte length of the white-space char at i, *)
(* or 0 when the char at i is not white space.                             *)
(***************************************************************************)
WsLen(b, i) ==
    LET c == b[i] IN
    IF (c >= 9 /\ c <= 13) \/ c = 32 THEN 1
    ELSE IF c = 194 /\ i + 1 <= Len(b) /\ b[i + 1] \in {133, 160} THEN 2
    ELSE IF i + 2 > Len(b) THEN 0
    ELSE IF c = 225 /\ b[i + 1] = 154 /\ b[i + 2] = 128 THEN 3
    ELSE IF c = 226 /\ b[i + 1] = 128 /\ b[i + 2] \in (128..138) \cup {168, 169, 175} THEN 3
    ELSE IF c = 226 /\ b[i + 1] = 129 /\ b[i + 2] = 159 THEN 3
    ELSE IF c = 227 /\ b[i + 1] = 128 /\ b[i + 2] = 128 THEN 3
    ELSE 0

RECURSIVE AllWhitespaceFrom(_, _)
AllWhitespaceFrom(b, i) ==
    IF i > Len(b) THEN TRUE
    ELSE LET n == WsLen(b, i) IN n > 0 /\ AllWhitespaceFrom(b, i + n)

TrimIsEmpty(s) == AllWhitespaceFrom(s, 1)

(***************************************************************************)
(* Inputs of the inbound calls.  A missing query parameter and an empty   *)
(* one are the same to the handlers (unwrap_or_default), so <<>> and ""   *)
(* stand for both.                                                         *)
(***************************************************************************)
NameA == <<97>>

\* a 25-byte name, one byte over what str_to_word accepts
LongName == Rep(97, MaxStrLen + 1)

AddrX == <<120>>

AddrY == <<121>>

\* the 16-character text "0000000000000000" that service::lookup compares with
Zeros16 == Rep(48, 16)

Names == {<<>>, NameA, LongName}

\* the (name, address, version) parameters of the register calls: both tiers with
\* two addresses, the reserved text, an unsupported version, a name that does not
\* fit a word, and one call for each missing parameter
RegisterInputs ==
    {<<NameA, a, v>> : a \in {AddrX, AddrY}, v \in {"2", "2.5"}}
    \cup {<<NameA, Zeros16, "2.5">>, <<NameA, AddrX, "3">>, <<LongName, AddrX, "2.5">>}
    \cup {<<<<>>, AddrX, "2">>, <<NameA, <<>>, "2">>, <<NameA, AddrX, "">>}

(***************************************************************************)
(* Responses and errors (handler.rs LookupResponse / RegisterResponse,    *)
(* error.rs AppError), all as one record shape.  An Option is <<>> (None) *)
(* or <<v>> (Some(v)).                                                     *)
(***************************************************************************)
None == <<>>

Some(v) == <<v>>

Resp(kind, msg, name, address, version, tx) ==
    [kind |-> kind, msg |-> msg, name |-> name, address |-> address,
     version |-> version, transaction_id |-> tx]

NoResp == Resp("none", "", <<>>, <<>>, "", None)

AppErrorBadRequest(msg) == Resp("BadRequest", msg, <<>>, <<>>, "", None)

AppErrorNotFound(msg) == Resp("NotFound", msg, <<>>, <<>>, "", None)

AppErrorInternal(msg) == Resp("Internal", msg, <<>>, <<>>, "", None)

AppErrorDatabase(msg) == Resp("Database", msg, <<>>, <<>>, "", None)

LookupResponse(address, version) == Resp("LookupResponse", "", <<>>, address, version, None)

RegisterResponse(name, address, version, tx) ==
    Resp("RegisterResponse", "", name, address, version, tx)

\* the unwinding of the worker task after a failed assert
Panic == Resp("panic", "", <<>>, <<>>, "", None)

IsOk(r) == r.kind \in {"LookupResponse", "RegisterResponse"}

\* the error both duplicate checks of register_handler return
AlreadyRegistered == AppErrorDatabase("User has already been registered.")

\* the error register_handler returns when insert_user failed
SaveFailed == AppErrorDatabase("Failed to save user to database")

\* a Record that is always tagged with the ledger's version
UserTaggedLedger(name, address, version) ==
    [name |-> name, address |-> address, version |-> "2.5"]

User(name, address, version) == [name |-> name, address |-> address, version |-> version]

(***************************************************************************)
(* State.                                                                  *)
(*   db        the rows of the users table (name, address, version)        *)
(*   ledger    the name service contract's storage: bindings key -> val    *)
(*   queue     the buffer of the mpsc channel, oldest request first        *)
(*   chan      the oneshot channels, chan[id] belongs to request id        *)
(*   worker    the client task: its position in the loop, the request it   *)
(*             took and the result it computed                             *)
(*   busy      the requests whose operation is running on the client       *)
(*   startLog  the ids of the requests in the order the worker took them   *)
(*   calls     the inbound calls: handler position, parameters, response   *)
(*             and bookkeeping of what the call did: the requests it sent  *)
(*             (enqLookup, enqRegister), its cache reads and writes, what  *)
(*             its cache read found, the outcome of its ledger-tier check  *)
(*             (dupReply), and whether a cache read (readErr), a cache     *)
(*             write (writeErr) or a ledger step, a send or the receipt of *)
(*             a reply (sawFailure) failed in it                           *)
(*   faults    the number of environment events so far                     *)
(*   putLog    the calls whose insert_user succeeded, in the order of the  *)
(*             writes                                                      *)
(*   codec     a run of the word codec on its own: the input text, the     *)
(*             word str_to_word returned and the text word_to_str returned *)
(*   svc       a run of service::lookup or service::register on its own:   *)
(*             the arguments, the outcome of the remote steps, the result  *)
(*             and the calls it made on the client, in order               *)
(***************************************************************************)
VARIABLES db, ledger, queue, chan, worker, busy, startLog, calls, faults, putLog, codec, svc

vars == <<db, ledger, queue, chan, worker, busy, startLog, calls, faults, putLog, codec, svc>>

CallIds == 1..MaxCalls

NoReq == [id |-> 0, kind |-> "none", name |-> <<>>, address |-> <<>>, call |-> 0]

\* ClientRequest::Lookup / ClientRequest::Register with its params; respond is chan[id]
ClientRequest(id, kind, name, address, call) ==
    [id |-> id, kind |-> kind, name |-> name, address |-> address, call |-> call]

\* oneshot::channel(): nothing sent, both halves alive
OneshotChannel == [sends |-> 0, val |-> NoResp, rxAlive |-> TRUE, txDropped |-> FALSE]

\* no run of the codec on its own
CodecIdle == [pc |-> "idle", s |-> <<>>, word |-> <<>>, out |-> <<>>]

\* no run of a service operation on its own
SvcIdle ==
    [pc |-> "idle", op |-> "none", name |-> <<>>, address |-> <<>>, env |-> "ok",
     store |-> {}, result |-> NoResp, clientCalls |-> <<>>]

IdleCall ==
    [pc |-> "idle", kind |-> "none", name |-> <<>>, address |-> <<>>, version |-> "",
     rid |-> 0, resp |-> NoResp, enqLookup |-> 0, enqRegister |-> 0,
     dbReads |-> 0, dbWrites |-> 0, ledgerWrites |-> 0,
     found |-> {}, readErr |-> FALSE, passed |-> FALSE, before |-> {},
     dupReply |-> "none", writeErr |-> FALSE, sawFailure |-> FALSE]

Init ==
    /\ db = {}
    /\ ledger = {}
    /\ queue = <<>>
    /\ chan = <<>>
    /\ worker = [pc |-> "recv", cur |-> NoReq, result |-> NoResp]
    /\ busy = {}
    /\ startLog = <<>>
    /\ calls = [c \in CallIds |-> IdleCall]
    /\ faults = 0
    /\ putLog = <<>>
    /\ codec = CodecIdle
    /\ svc = SvcIdle

(***************************************************************************)
(* Cache store, db.rs.  The table has a UNIQUE constraint on name.         *)
(***************************************************************************)
\* the rows of a name
RowsOf(rows, name) == {r \in rows : r.name = name}

\* INSERT into a table without the UNIQUE constraint on name
InsertPlain(rows, user) == rows \cup {user}

\* INSERT OR IGNORE: a row that conflicts on name is not written
InsertOrIgnore(rows, user) == IF RowsOf(rows, user.name) # {} THEN rows ELSE rows \cup {user}

\* INSERT OR REPLACE: the rows that conflict on name are deleted, then the row is added
InsertOrReplace(rows, user) == {r \in rows : r.name # user.name} \cup {user}

\* a statement that writes its row although it reports an error
InsertUserAlways(rows, user, dbOk) == InsertOrReplace(rows, user)

\* Database::insert_user: the table after the call; a failed statement (Err,
\* dbOk = FALSE) leaves the table as it was
InsertUser(rows, user, dbOk) == IF dbOk THEN InsertOrReplace(rows, user) ELSE rows

\* a query that finds no row
QueryRowMiss(rows, name) == None

\* SELECT ... WHERE name = ?1, query_row: Some(first row) or None
QueryRow(rows, name) ==
    IF RowsOf(rows, name) = {} THEN None ELSE Some(CHOOSE r \in RowsOf(rows, name) : TRUE)

(***************************************************************************)
(* The ledger as the gateway sees it: execute_program of the lookup script *)
(* leaves the bound word on the stack, top first, and an unbound name      *)
(* reads as the zero word; a submitted register transaction binds the      *)
(* name word to the address word.                                          *)
(***************************************************************************)
LedgerGet(store, key) ==
    LET hits == {b \in store : b.key = key}
    IN IF hits = {} THEN ZeroWord ELSE (CHOOSE b \in hits : TRUE).val

LedgerBind(store, key, val) ==
    {b \in store : b.key # key} \cup {[key |-> key, val |-> val]}

LookupStack(store, key) ==
    LET v == LedgerGet(store, key) IN <<v[4], v[3], v[2], v[1]>>

(***************************************************************************)
(* service.rs.  env is the outcome of the remote steps of this run:        *)
(* "syncFail", "execFail", "submitFail", "shortStack" or "ok".             *)
(***************************************************************************)
LookupEnvs == {"ok", "syncFail", "execFail", "shortStack"}

RegisterEnvs == {"ok", "syncFail", "execFail", "submitFail"}

\* the first four stack elements taken as they come
StackWordUnreversed(stack) == <<stack[1], stack[2], stack[3], stack[4]>>

\* service.rs:185, the word read from the stack: its first four elements reversed
StackWord(stack) == <<stack[4], stack[3], stack[2], stack[1]>>

\* service.rs:189-195, the decoded value that counts as not registered
NotRegistered(address) == TrimIsEmpty(address) \/ address = Zeros16

ServiceLookup(store, name, env) ==
    IF name = <<>> THEN AppErrorBadRequest("Name cannot be empty")
    ELSE IF env = "syncFail" THEN AppErrorInternal("Failed to sync blockchain state")
    ELSE IF ~StrFits(name) THEN Panic
    ELSE IF env = "execFail" THEN AppErrorInternal("Program execution failed")
    ELSE LET stack == IF env = "shortStack" THEN <<>> ELSE LookupStack(store, str_to_word(name))
         IN IF Len(stack) < 4 THEN AppErrorNotFound("not found or returned invalid data")
            ELSE LET address == word_to_str(StackWord(stack))
                 IN IF NotRegistered(address) THEN AppErrorNotFound("not registered")
                    ELSE LookupResponse(address, "2.5")

ServiceRegister(name, address, env, txid) ==
    IF name = <<>> THEN AppErrorBadRequest("Name cannot be empty")
    ELSE IF address = <<>> THEN AppErrorBadRequest("Address cannot be empty")
    ELSE IF env = "syncFail" THEN AppErrorInternal("Failed to sync blockchain state")
    ELSE IF ~StrFits(name) \/ ~StrFits(address) THEN Panic
    ELSE IF env = "execFail" THEN AppErrorInternal("Transaction execution failed")
    ELSE IF env = "submitFail" THEN AppErrorInternal("Transaction submission failed")
    ELSE RegisterResponse(name, address, "2.5", Some(txid))

\* the contract storage after service::register returned result
LedgerAfterRegister(store, name, address, result) ==
    IF result.kind = "RegisterResponse"
    THEN LedgerBind(store, str_to_word(name), str_to_word(address))
    ELSE store

(***************************************************************************)
(* Helpers of the handler and worker actions.                              *)
(***************************************************************************)
\* an environment event is counted; none happens once MaxFaults have
Event(happens) ==
    /\ happens => faults < MaxFaults
    /\ faults' = IF happens THEN faults + 1 ELSE faults

\* the handler returned resp
Done(call, resp) == [call EXCEPT !.pc = "done", !.resp = resp]

\* the calls that have returned a response
DoneCalls == {d \in CallIds : calls[d].pc = "done"}

\* calls arrive in the order of their ids
NextCall(c) == calls[c].pc = "idle" /\ \A d \in CallIds : d < c => calls[d].pc # "idle"

\* the mpsc receiver exists as long as the client task runs
ReceiverAlive == worker.pc # "dead"

\* a read whose failure counts as a row found
LookupUserErrAsHit(rows, name, dbOk) ==
    IF dbOk THEN QueryRow(rows, name) ELSE Some(User(name, <<>>, ""))

\* a read that never reports a row
LookupUserMiss(rows, name, dbOk) == None

\* Database::lookup_user as the handler sees it: Err(_) is modelled by dbOk = FALSE
LookupUser(rows, name, dbOk) == IF dbOk THEN QueryRow(rows, name) ELSE None

\* state.tx.send(request).await succeeded: the request is appended to the buffer
SendAccepted(c, kind) ==
    LET id == Len(chan) + 1 IN
    /\ Len(queue) < QueueCap
    /\ queue' = Append(queue, ClientRequest(id, kind, calls[c].name, calls[c].address, c))
    /\ chan' = Append(chan, OneshotChannel)

\* a receiver that is not woken when its sender is dropped
ResolvedBySendOnly(id) == chan[id].sends > 0

\* rx.await returns once a value was sent or the sender was dropped
Resolved(id) == chan[id].sends > 0 \/ chan[id].txDropped

\* what rx.await returns: the kind of the result sent, or "recvErr" for Err(RecvError)
Received(id) == IF chan[id].sends > 0 THEN chan[id].val.kind ELSE "recvErr"

\* the outcomes of a send or a receive that are a failure of the ledger or of the channel
IsFailure(outcome) == outcome \in {"Internal", "sendErr", "recvErr"}

(***************************************************************************)
(* handler.rs lookup_handler.                                              *)
(***************************************************************************)
\* lines 161-163: the error of the parameter check, NoResp when it passes
LookupParamsError(name) ==
    IF name = <<>> THEN AppErrorBadRequest("Name parameter is required") ELSE NoResp

\* lines 159-192: validation and the cache read
LookupHandlerStart(c) ==
    /\ NextCall(c)
    /\ \E name \in Names, dbOk \in BOOLEAN :
        LET base == [IdleCall EXCEPT !.kind = "lookup", !.name = name, !.before = DoneCalls]
            read == [base EXCEPT !.dbReads = 1, !.found = RowsOf(db, name),
                                 !.readErr = ~dbOk]
            user == LookupUser(db, name, dbOk)
        IN /\ calls' = [calls EXCEPT ![c] =
              IF LookupParamsError(name) # NoResp THEN Done(base, LookupParamsError(name))
              ELSE IF user # None
                   THEN Done(read, LookupResponse(user[1].address, user[1].version))
                   ELSE [read EXCEPT !.pc = "send"]]
           /\ Event(LookupParamsError(name) = NoResp /\ ~dbOk)
    /\ UNCHANGED <<db, ledger, queue, chan, worker, busy, startLog, putLog, codec, svc>>

\* lines 196-205: the request is sent to the client task
LookupHandlerSend(c) ==
    /\ calls[c].pc = "send"
    /\ IF ReceiverAlive
       THEN /\ SendAccepted(c, "Lookup")
            /\ calls' = [calls EXCEPT ![c].pc = "await", ![c].rid = Len(chan) + 1,
                                      ![c].enqLookup = @ + 1]
       ELSE /\ calls' = [calls EXCEPT ![c] =
                            Done([@ EXCEPT !.sawFailure = TRUE],
                                 AppErrorInternal("Failed to process request"))]
            /\ UNCHANGED <<queue, chan>>
    /\ UNCHANGED <<db, ledger, worker, busy, startLog, faults, putLog, codec, svc>>

\* lines 208-217: the reply
LookupHandlerAwait(c) ==
    /\ calls[c].pc = "await"
    /\ Resolved(calls[c].rid)
    /\ calls' = [calls EXCEPT ![c] =
          LET seen == [@ EXCEPT !.sawFailure = @ \/ IsFailure(Received(calls[c].rid))] IN
          IF chan[calls[c].rid].sends > 0
          THEN Done(seen, chan[calls[c].rid].val)
          ELSE Done(seen, AppErrorInternal("Failed to receive response"))]
    /\ UNCHANGED <<db, ledger, queue, chan, worker, busy, startLog, faults, putLog, codec, svc>>

(***************************************************************************)
(* handler.rs register_handler.                                            *)
(***************************************************************************)
\* a parameter check that lets an empty version through
RegisterParamsErrorNoVersion(name, address, version) ==
    IF name = <<>> THEN AppErrorBadRequest("Name parameter is required")
    ELSE IF address = <<>> THEN AppErrorBadRequest("Address parameter is required")
    ELSE NoResp

\* lines 62-72: the error of the parameter checks, NoResp when they pass
RegisterParamsError(name, address, version) ==
    IF name = <<>> THEN AppErrorBadRequest("Name parameter is required")
    ELSE IF address = <<>> THEN AppErrorBadRequest("Address parameter is required")
    ELSE IF version = "" THEN AppErrorBadRequest("Version parameter is required")
    ELSE NoResp

\* lines 58-81: validation and the cache-tier duplicate check
RegisterHandlerStart(c) ==
    /\ NextCall(c)
    /\ \E in \in RegisterInputs, dbOk \in BOOLEAN :
        LET name == in[1]
            address == in[2]
            version == in[3]
            base == [IdleCall EXCEPT !.kind = "register", !.name = name,
                                     !.address = address, !.version = version,
                                     !.before = DoneCalls]
            read == [base EXCEPT !.dbReads = 1, !.found = RowsOf(db, name),
                                 !.readErr = ~dbOk]
        IN /\ calls' = [calls EXCEPT ![c] =
              IF RegisterParamsError(name, address, version) # NoResp
              THEN Done(base, RegisterParamsError(name, address, version))
              ELSE IF LookupUser(db, name, dbOk) # None THEN Done(read, AlreadyRegistered)
              ELSE [read EXCEPT !.pc = "sendDup"]]
           /\ Event(RegisterParamsError(name, address, version) = NoResp /\ ~dbOk)
    /\ UNCHANGED <<db, ledger, queue, chan, worker, busy, startLog, putLog, codec, svc>>

\* lines 83-90: the ledger-tier duplicate check is sent; a failed send is passed over
RegisterHandlerSendDup(c) ==
    /\ calls[c].pc = "sendDup"
    /\ IF ReceiverAlive
       THEN /\ SendAccepted(c, "Lookup")
            /\ calls' = [calls EXCEPT ![c].pc = "awaitDup", ![c].rid = Len(chan) + 1,
                                      ![c].enqLookup = @ + 1]
       ELSE /\ calls' = [calls EXCEPT ![c].pc = "dispatch", ![c].passed = TRUE,
                                      ![c].dupReply = "sendErr", ![c].sawFailure = TRUE]
            /\ UNCHANGED <<queue, chan>>
    /\ UNCHANGED <<db, ledger, worker, busy, startLog, faults, putLog, codec, svc>>

\* lines 92-101: only Ok(Ok(_)) ends the call, every other reply is passed over
RegisterHandlerAwaitDup(c) ==
    /\ calls[c].pc = "awaitDup"
    /\ Resolved(calls[c].rid)
    /\ calls' = [calls EXCEPT ![c] =
          LET seen == [@ EXCEPT !.dupReply = Received(calls[c].rid),
                                !.sawFailure = IsFailure(Received(calls[c].rid))] IN
          IF chan[calls[c].rid].sends > 0 /\ IsOk(chan[calls[c].rid].val)
          THEN Done(seen, AlreadyRegistered)
          ELSE [seen EXCEPT !.pc = "dispatch", !.passed = TRUE]]
    /\ UNCHANGED <<db, ledger, queue, chan, worker, busy, startLog, faults, putLog, codec, svc>>

\* a response that reports a transaction
Web2ResponseWithTx(user) == RegisterResponse(user.name, user.address, user.version, Some(0))

\* lines 118-123: the response of a version "2" registration
Web2Response(user) == RegisterResponse(user.name, user.address, user.version, None)

\* lines 103-125: version "2" writes the cache
RegisterHandlerWeb2(c) ==
    /\ calls[c].pc = "dispatch"
    /\ calls[c].version = "2"
    /\ \E dbOk \in BOOLEAN :
        LET user == User(calls[c].name, calls[c].address, calls[c].version) IN
        /\ Event(~dbOk)
        /\ db' = InsertUser(db, user, dbOk)
        /\ IF dbOk
           THEN /\ putLog' = Append(putLog, c)
                /\ calls' = [calls EXCEPT ![c] =
                      Done([@ EXCEPT !.dbWrites = @ + 1], Web2Response(user))]
           ELSE /\ UNCHANGED putLog
                /\ calls' = [calls EXCEPT ![c] =
                      Done([@ EXCEPT !.writeErr = TRUE], SaveFailed)]
    /\ UNCHANGED <<ledger, queue, chan, worker, busy, startLog, codec, svc>>

\* lines 126-137: version "2.5" sends a Register request
RegisterHandlerWeb25(c) ==
    /\ calls[c].pc = "dispatch"
    /\ calls[c].version = "2.5"
    /\ IF ReceiverAlive
       THEN /\ SendAccepted(c, "Register")
            /\ calls' = [calls EXCEPT ![c].pc = "awaitRegister", ![c].rid = Len(chan) + 1,
                                      ![c].enqRegister = @ + 1]
       ELSE /\ calls' = [calls EXCEPT ![c] =
                            Done([@ EXCEPT !.sawFailure = TRUE],
                                 AppErrorInternal("Failed to process request"))]
            /\ UNCHANGED <<queue, chan>>
    /\ UNCHANGED <<db, ledger, worker, busy, startLog, faults, putLog, codec, svc>>

\* lines 147-152: any other version
RegisterHandlerUnsupported(c) ==
    /\ calls[c].pc = "dispatch"
    /\ calls[c].version \notin {"2", "2.5"}
    /\ calls' = [calls EXCEPT ![c] = Done(@, AppErrorBadRequest(
                    "The server can only process Web2 or Web2.5 requests"))]
    /\ UNCHANGED <<db, ledger, queue, chan, worker, busy, startLog, faults, putLog, codec, svc>>

\* lines 140-146: the reply to the Register request
RegisterHandlerAwaitRegister(c) ==
    /\ calls[c].pc = "awaitRegister"
    /\ Resolved(calls[c].rid)
    /\ calls' = [calls EXCEPT ![c] =
          LET seen == [@ EXCEPT !.sawFailure = @ \/ IsFailure(Received(calls[c].rid))] IN
          IF chan[calls[c].rid].sends > 0
          THEN Done(seen, chan[calls[c].rid].val)
          ELSE Done(seen, AppErrorInternal("Failed to receive response"))]
    /\ UNCHANGED <<db, ledger, queue, chan, worker, busy, startLog, faults, putLog, codec, svc>>

\* the caller goes away while the handler waits for a reply: the handler future
\* is dropped and with it the oneshot receiver
Abandon(c) ==
    /\ calls[c].pc \in {"await", "awaitDup", "awaitRegister"}
    /\ calls' = [calls EXCEPT ![c].pc = "abandoned"]
    /\ Event(TRUE)
    /\ chan' = [chan EXCEPT ![calls[c].rid].rxAlive = FALSE]
    /\ UNCHANGED <<db, ledger, queue, worker, busy, startLog, putLog, codec, svc>>

(***************************************************************************)
(* main.rs, the client task: while let Some(request) = rx.recv().await.    *)
(***************************************************************************)
\* a worker that takes requests while an earlier one is still being served
WorkerReadyAnytime == worker.pc # "dead"

\* the loop is at rx.recv(): the previous iteration has ended
WorkerReady == worker.pc = "recv"

\* a buffer that keeps the request it hands out
KeepIndex(q, i) == q

\* a channel that hands out the newest request first
RecvIndexNewest(q) == Len(q)

\* the position in the buffer of the request recv() returns: the oldest
RecvIndex(q) == 1

\* the buffer after recv() took the request at position i
WithoutIndex(q, i) == SubSeq(q, 1, i - 1) \o SubSeq(q, i + 1, Len(q))

\* line 123: a request is taken from the channel
WorkerRecv ==
    /\ WorkerReady
    /\ queue # <<>>
    /\ LET request == queue[RecvIndex(queue)] IN
        /\ worker' = [pc |-> "exec", cur |-> request, result |-> NoResp]
        /\ busy' = busy \cup {request.id}
        /\ startLog' = Append(startLog, request.id)
    /\ queue' = WithoutIndex(queue, RecvIndex(queue))
    /\ UNCHANGED <<db, ledger, chan, calls, faults, putLog, codec, svc>>

\* a failed assert unwinds the task: the request in hand, the receiver and the
\* requests still buffered are dropped, and with them their oneshot senders
WorkerPanics ==
    /\ worker' = [pc |-> "dead", cur |-> NoReq, result |-> NoResp]
    /\ chan' = [id \in DOMAIN chan |->
                  IF id = worker.cur.id \/ \E i \in DOMAIN queue : queue[i].id = id
                  THEN [chan[id] EXCEPT !.txDropped = TRUE] ELSE chan[id]]
    /\ queue' = <<>>
    /\ busy' = busy \ {worker.cur.id}
    /\ UNCHANGED <<db, ledger, startLog, calls, putLog, codec, svc>>

\* lines 125-132: service::lookup runs on the client
WorkerExecLookup ==
    /\ worker.pc = "exec"
    /\ worker.cur.kind = "Lookup"
    /\ \E env \in LookupEnvs :
        LET result == ServiceLookup(ledger, worker.cur.name, env) IN
        /\ Event(env # "ok" /\ result # Panic)
        /\ IF result = Panic THEN WorkerPanics
           ELSE /\ worker' = [worker EXCEPT !.pc = "respond", !.result = result]
                /\ busy' = busy \ {worker.cur.id}
                /\ UNCHANGED <<db, ledger, queue, chan, startLog, calls, putLog, codec, svc>>

\* lines 135-150: service::register runs on the client
WorkerExecRegister ==
    /\ worker.pc = "exec"
    /\ worker.cur.kind = "Register"
    /\ \E env \in RegisterEnvs :
        LET result == ServiceRegister(worker.cur.name, worker.cur.address, env, worker.cur.id)
        IN
        /\ Event(env # "ok" /\ result # Panic)
        /\ IF result = Panic THEN WorkerPanics
           ELSE /\ worker' = [worker EXCEPT !.pc = "respond", !.result = result]
                /\ ledger' = LedgerAfterRegister(ledger, worker.cur.name, worker.cur.address,
                                                 result)
                /\ calls' = [calls EXCEPT ![worker.cur.call].ledgerWrites =
                                IF IsOk(result) THEN @ + 1 ELSE @]
                /\ busy' = busy \ {worker.cur.id}
                /\ UNCHANGED <<db, queue, chan, startLog, putLog, codec, svc>>

\* a worker that stores the Record of a registration it replies to
WorkerRespondCaching ==
    /\ worker.pc = "respond"
    /\ chan' = [chan EXCEPT ![worker.cur.id] =
                   [@ EXCEPT !.sends = @ + 1,
                             !.val = IF chan[worker.cur.id].rxAlive
                                     THEN worker.result ELSE @]]
    /\ worker' = [pc |-> "recv", cur |-> NoReq, result |-> NoResp]
    /\ db' = IF worker.result.kind = "RegisterResponse"
             THEN InsertOrReplace(db, User(worker.result.name, worker.result.address,
                                           worker.result.version))
             ELSE db
    /\ UNCHANGED <<ledger, queue, busy, startLog, calls, faults, putLog, codec, svc>>

\* lines 133 and 151: let _ = respond.send(result); a dropped receiver is ignored
WorkerRespond ==
    /\ worker.pc = "respond"
    /\ chan' = [chan EXCEPT ![worker.cur.id] =
                   [@ EXCEPT !.sends = @ + 1,
                             !.val = IF chan[worker.cur.id].rxAlive
                                     THEN worker.result ELSE @]]
    /\ worker' = [pc |-> "recv", cur |-> NoReq, result |-> NoResp]
    /\ UNCHANGED <<db, ledger, queue, busy, startLog, calls, faults, putLog, codec, svc>>

Next ==
    \/ \E c \in CallIds :
        \/ LookupHandlerStart(c)
        \/ LookupHandlerSend(c)
        \/ LookupHandlerAwait(c)
        \/ RegisterHandlerStart(c)
        \/ RegisterHandlerSendDup(c)
        \/ RegisterHandlerAwaitDup(c)
        \/ RegisterHandlerWeb2(c)
        \/ RegisterHandlerWeb25(c)
        \/ RegisterHandlerUnsupported(c)
        \/ RegisterHandlerAwaitRegister(c)
        \/ Abandon(c)
    \/ WorkerRecv
    \/ WorkerExecLookup
    \/ WorkerExecRegister
    \/ WorkerRespond

Spec == Init /\ [][Next]_vars

(***************************************************************************)
(* The word codec on its own: serde.rs applied to a text of CodecInputs.  *)
(***************************************************************************)
\* the longest input text, in bytes
MaxInputLen == 26

\* k copies of the byte sequence unit
Repeat(unit, k) == [i \in 1..(k * Len(unit)) |-> unit[((i - 1) % Len(unit)) + 1]]

\* ASCII bytes: NUL, '0', 'a', DEL
AsciiBytes == {0, 48, 97, 127}

\* UTF-8 scalars of 1 to 4 bytes: '1', U+00E9, U+07FF, U+4E16, U+754C, U+FFFF,
\* U+1F600, U+10FFFF
Scalars ==
    {<<49>>, <<195, 169>>, <<223, 191>>, <<228, 184, 150>>, <<231, 149, 140>>,
     <<239, 191, 191>>, <<240, 159, 152, 128>>, <<244, 143, 191, 191>>}

\* the texts of the unit tests of serde.rs: "mirko.miden", "Hello, " + U+4E16
\* U+754C + "!", and "123456789012345678" + U+4E16 U+754C (24 bytes)
TestTexts ==
    {<<109, 105, 114, 107, 111, 46, 109, 105, 100, 101, 110>>,
     <<72, 101, 108, 108, 111, 44, 32, 228, 184, 150, 231, 149, 140, 33>>,
     <<49, 50, 51, 52, 53, 54, 55, 56, 57, 48, 49, 50, 51, 52, 53, 54, 55, 56,
       228, 184, 150, 231, 149, 140>>}

\* valid UTF-8 texts of 0 to MaxInputLen bytes: runs of one ASCII byte, runs of
\* one scalar, and ASCII runs followed by two scalars
CodecInputs ==
    {t \in {Rep(b, n) : b \in AsciiBytes, n \in 0..MaxInputLen}
            \cup {Repeat(u, k) : u \in Scalars, k \in 0..MaxInputLen}
            \cup {Rep(49, n) \o u \o v : n \in 0..MaxInputLen, u \in Scalars, v \in Scalars}
            \cup TestTexts :
        Len(t) <= MaxInputLen}

serviceVars == <<db, ledger, queue, chan, worker, busy, startLog, calls, faults, putLog>>

CodecInit ==
    /\ db = {}
    /\ ledger = {}
    /\ queue = <<>>
    /\ chan = <<>>
    /\ worker = [pc |-> "recv", cur |-> NoReq, result |-> NoResp]
    /\ busy = {}
    /\ startLog = <<>>
    /\ calls = [c \in CallIds |-> IdleCall]
    /\ faults = 0
    /\ putLog = <<>>
    /\ \E s \in CodecInputs : codec = [CodecIdle EXCEPT !.pc = "input", !.s = s]
    /\ svc = SvcIdle

\* serde.rs:3-32: str_to_word returns the word, or the assert of line 10 panics
CodecEncode ==
    /\ codec.pc = "input"
    /\ codec' = IF StrFits(codec.s)
                THEN [codec EXCEPT !.pc = "encoded", !.word = str_to_word(codec.s)]
                ELSE [codec EXCEPT !.pc = "panicked"]
    /\ UNCHANGED <<serviceVars, svc>>

\* serde.rs:34-53: word_to_str of the word str_to_word returned
CodecDecode ==
    /\ codec.pc = "encoded"
    /\ codec' = [codec EXCEPT !.pc = "decoded", !.out = word_to_str(codec.word)]
    /\ UNCHANGED <<serviceVars, svc>>

CodecNext == CodecEncode \/ CodecDecode

CodecSpec == CodecInit /\ [][CodecNext]_vars

(***************************************************************************)
(* The service operations on their own: service.rs applied to arguments    *)
(* the handlers would not pass on, the empty texts among them.             *)
(***************************************************************************)
\* the calls service::lookup makes on the client and the assembler, in order:
\* sync_state (130), create_library (137), execute_program (165)
LookupClientCalls(name, env) ==
    IF name = <<>> THEN <<>>
    ELSE IF env = "syncFail" THEN <<"sync">>
    ELSE IF ~StrFits(name) THEN <<"sync", "compile">>
    ELSE <<"sync", "compile", "execute">>

\* a register that checks the name and leaves the address to the ledger
RegisterClientCallsNameOnly(name, address, env) ==
    IF name = <<>> THEN <<>>
    ELSE IF env = "syncFail" THEN <<"sync">>
    ELSE IF ~StrFits(name) \/ ~StrFits(address) THEN <<"sync", "compile">>
    ELSE IF env = "execFail" THEN <<"sync", "compile", "execute">>
    ELSE <<"sync", "compile", "execute", "submit">>

\* the calls service::register makes on the client and the assembler, in
\* order: sync_state (34), create_library (41), new_transaction (87),
\* submit_transaction (103)
RegisterClientCalls(name, address, env) ==
    IF name = <<>> \/ address = <<>> THEN <<>>
    ELSE IF env = "syncFail" THEN <<"sync">>
    ELSE IF ~StrFits(name) \/ ~StrFits(address) THEN <<"sync", "compile">>
    ELSE IF env = "execFail" THEN <<"sync", "compile", "execute">>
    ELSE <<"sync", "compile", "execute", "submit">>

\* a text of one space: not empty, though trim() leaves nothing of it
Blank == <<32>>

\* the name and address arguments of the runs
ServiceNames == {<<>>, NameA, Blank, LongName}

ServiceAddresses == {<<>>, AddrX, Blank, Zeros16, LongName}

\* the contract storage at the start of a run: empty, or NameA bound to AddrY
ServiceStores == {{}, LedgerBind({}, str_to_word(NameA), str_to_word(AddrY))}

ServiceInit ==
    /\ db = {}
    /\ queue = <<>>
    /\ chan = <<>>
    /\ worker = [pc |-> "recv", cur |-> NoReq, result |-> NoResp]
    /\ busy = {}
    /\ startLog = <<>>
    /\ calls = [c \in CallIds |-> IdleCall]
    /\ faults = 0
    /\ putLog = <<>>
    /\ codec = CodecIdle
    /\ ledger \in ServiceStores
    /\ \/ \E name \in ServiceNames, env \in LookupEnvs :
            svc = [SvcIdle EXCEPT !.pc = "input", !.op = "lookup", !.name = name,
                                  !.env = env, !.store = ledger]
       \/ \E name \in ServiceNames, address \in ServiceAddresses, env \in RegisterEnvs :
            svc = [SvcIdle EXCEPT !.pc = "input", !.op = "register", !.name = name,
                                  !.address = address, !.env = env, !.store = ledger]

\* service.rs:119-206: one run of service::lookup
ServiceRunLookup ==
    /\ svc.pc = "input"
    /\ svc.op = "lookup"
    /\ svc' = [svc EXCEPT !.pc = "done",
                          !.result = ServiceLookup(ledger, svc.name, svc.env),
                          !.clientCalls = LookupClientCalls(svc.name, svc.env)]
    /\ UNCHANGED <<serviceVars, codec>>

\* service.rs:19-117: one run of service::register; a submitted transaction
\* binds the name
ServiceRunRegister ==
    /\ svc.pc = "input"
    /\ svc.op = "register"
    /\ LET result == ServiceRegister(svc.name, svc.address, svc.env, 1) IN
        /\ svc' = [svc EXCEPT !.pc = "done", !.result = result,
                              !.clientCalls =
                                  RegisterClientCalls(svc.name, svc.address, svc.env)]
        /\ ledger' = LedgerAfterRegister(ledger, svc.name, svc.address, result)
    /\ UNCHANGED <<db, queue, chan, worker, busy, startLog, calls, faults, putLog, codec>>

ServiceNext == ServiceRunLookup \/ ServiceRunRegister

ServiceSpec == ServiceInit /\ [][ServiceNext]_vars

(***************************************************************************)
(* Properties.                                                             *)
(***************************************************************************)
\* the worker has taken request id from the channel
Taken(id) == \E i \in DOMAIN startLog : startLog[i] = id

\* the worker has taken request id and is through with it
Finished(id) == Taken(id) /\ id \notin busy /\ worker.cur.id # id

\* C1: at most one ledger operation is in progress on the client at any time,
\* and when the worker has taken a request, every request it took before has
\* finished and had its reply sent.
C1_AtMostOneLedgerOperation ==
    /\ Cardinality(busy) <= 1
    /\ \A i \in DOMAIN startLog :
          i < Len(startLog) => startLog[i] \notin busy /\ chan[startLog[i]].sends = 1

\* C1 witness: an operation runs on the client while another request waits and
\* an earlier one has already been served
C1_Witness ==
    /\ Cardinality(busy) = 1
    /\ queue # <<>>
    /\ Len(startLog) >= 2

\* C2: requests are served in the order in which the channel accepted them
\* (ids are given in that order): a request is taken only when every request
\* accepted before it has been taken and is finished, whatever its kind.
C2_FifoOrder ==
    /\ \A i, j \in DOMAIN startLog : i < j => startLog[i] < startLog[j]
    /\ \A a, b \in DOMAIN chan : a < b /\ Taken(b) => Finished(a)
    /\ \A i, j \in DOMAIN queue : i < j => queue[i].id < queue[j].id

\* C2 witness: a Register request accepted after a Lookup request of another
\* call is served after it
C2_Witness ==
    /\ Len(startLog) >= 2
    /\ \E i, j \in DOMAIN startLog :
          /\ i < j
          /\ worker.cur.id = startLog[j]
          /\ worker.cur.kind = "Lookup"
          /\ worker.pc = "respond"
    /\ \E k \in DOMAIN queue : queue[k].kind = "Register"

\* C3: every request the worker has taken and is through with had exactly one
\* result sent on its reply channel, and no channel ever carries two (stated
\* for the runs without any environment failure).
C3_ReplyExactlyOnce ==
    faults = 0 =>
        \A id \in DOMAIN chan :
            /\ chan[id].sends <= 1
            /\ Finished(id) => chan[id].sends = 1

IsLookupCall(c) == calls[c].kind = "lookup" /\ calls[c].pc # "idle"

IsRegisterCall(c) == calls[c].kind = "register" /\ calls[c].pc # "idle"

Succeeded(c) == calls[c].pc = "done" /\ IsOk(calls[c].resp)

\* no registration of the name of call c other than c1 ran before c returned
NoOtherRegistration(c1, c) ==
    \A d \in CallIds \ {c1} :
        IsRegisterCall(d) /\ calls[d].name = calls[c].name => c \in calls[d].before

\* C4 as stated: whenever the cache holds a Record for the name at the time of
\* the lookup's read, the lookup returns that Record's address and version and
\* enqueues nothing.
C4_CacheHitAlways ==
    \A c \in CallIds :
        IsLookupCall(c) /\ calls[c].found # {} =>
            /\ calls[c].enqLookup = 0
            /\ calls[c].pc = "done"
            /\ \E r \in calls[c].found :
                  calls[c].resp = LookupResponse(r.address, r.version)

\* C4 amended: whenever the cache holds a Record for the name and the lookup's
\* cache read does not fail, the lookup returns that Record's address and
\* version and enqueues nothing; after a successful register(n, a, "2") and no
\* other registration of n, such a lookup(n) returns {a, "2"}.
C4_CacheHit ==
    /\ \A c \in CallIds :
          IsLookupCall(c) /\ calls[c].found # {} /\ ~calls[c].readErr =>
              /\ calls[c].enqLookup = 0 /\ calls[c].enqRegister = 0
              /\ calls[c].pc = "done"
              /\ \E r \in calls[c].found :
                    calls[c].resp = LookupResponse(r.address, r.version)
    /\ \A c1, c2 \in CallIds :
          /\ IsRegisterCall(c1) /\ Succeeded(c1) /\ calls[c1].version = "2"
          /\ IsLookupCall(c2) /\ c1 \in calls[c2].before
          /\ calls[c2].name = calls[c1].name
          /\ NoOtherRegistration(c1, c2)
          /\ ~calls[c2].readErr
          => /\ calls[c2].pc = "done"
             /\ calls[c2].resp = LookupResponse(calls[c1].address, "2")
             /\ calls[c2].enqLookup = 0

\* C4 witness: a lookup answered from the Record a version "2" registration wrote
C4_Witness ==
    \E c1, c2 \in CallIds :
        /\ IsRegisterCall(c1) /\ Succeeded(c1) /\ calls[c1].version = "2"
        /\ calls[c1].address = AddrY
        /\ IsLookupCall(c2) /\ c1 \in calls[c2].before
        /\ calls[c2].name = calls[c1].name
        /\ calls[c2].resp = LookupResponse(AddrY, "2")

\* C5: a lookup of a non-empty name that finds no Record in the cache enqueues
\* exactly one Lookup request and returns the gateway's reply: a success with
\* version "2.5", or NotFound (stated for the runs without any environment
\* failure).
C5_LookupFallback ==
    \A c \in CallIds :
        faults = 0 /\ IsLookupCall(c) /\ calls[c].name # <<>> /\ calls[c].found = {}
        /\ calls[c].pc = "done" =>
            /\ calls[c].enqLookup = 1
            /\ calls[c].enqRegister = 0
            /\ LET reply == chan[calls[c].rid] IN
               reply.sends = 1 /\ reply.val.kind \in {"LookupResponse", "NotFound"} =>
                   /\ calls[c].resp = reply.val
                   /\ IsOk(reply.val) => reply.val.version = "2.5"

\* C6: in runs without any environment failure, a register of a name that an
\* earlier, already returned register bound (version "2" or "2.5") fails with
\* the already-registered error and writes neither the cache nor the ledger.
C6_SecondRegisterConflicts ==
    \A c1, c2 \in CallIds :
        /\ faults = 0
        /\ IsRegisterCall(c1) /\ Succeeded(c1)
        /\ IsRegisterCall(c2) /\ c1 \in calls[c2].before
        /\ calls[c2].name = calls[c1].name
        /\ calls[c2].address # <<>>
        /\ calls[c2].version \in {"2", "2.5"}
        /\ calls[c2].pc = "done"
        => /\ calls[c2].resp = AlreadyRegistered
           /\ calls[c2].dbWrites = 0
           /\ calls[c2].ledgerWrites = 0

\* the calls whose cache write of name succeeded, in the order of the writes
RECURSIVE PutsOf(_, _)
PutsOf(log, name) ==
    IF log = <<>> THEN <<>>
    ELSE IF calls[Head(log)].name = name
         THEN <<Head(log)>> \o PutsOf(Tail(log), name)
         ELSE PutsOf(Tail(log), name)

Overlapping(c1, c2) ==
    /\ c1 # c2
    /\ calls[c1].pc # "idle" /\ calls[c2].pc # "idle"
    /\ c1 \notin calls[c2].before /\ c2 \notin calls[c1].before

\* C7: the cache holds, for each name, only the Record of the write that ran
\* last (and none if no write ran), also when overlapping registrations of the
\* name both succeeded; overlapping version "2.5" registrations that both
\* succeeded each had their own Register request run on the ledger, one at a
\* time.
C7_RaceLastWriterWins ==
    /\ \A name \in Names :
          LET puts == PutsOf(putLog, name) IN
          RowsOf(db, name) =
              IF puts = <<>> THEN {}
              ELSE {User(name, calls[puts[Len(puts)]].address, calls[puts[Len(puts)]].version)}
    /\ \A c1, c2 \in CallIds :
          /\ Overlapping(c1, c2)
          /\ IsRegisterCall(c1) /\ IsRegisterCall(c2)
          /\ calls[c1].name = calls[c2].name
          /\ calls[c1].version = "2.5" /\ calls[c2].version = "2.5"
          /\ Succeeded(c1) /\ Succeeded(c2)
          => /\ calls[c1].ledgerWrites = 1 /\ calls[c2].ledgerWrites = 1
             /\ calls[c1].rid # calls[c2].rid
             /\ Finished(calls[c1].rid) /\ Finished(calls[c2].rid)
             /\ Cardinality(busy) <= 1

\* C7 witness: two overlapping version "2" registrations of one name, with
\* different addresses, both found the cache and the ledger free and both
\* returned success
C7_Witness ==
    \E c1, c2 \in CallIds :
        /\ Overlapping(c1, c2)
        /\ IsRegisterCall(c1) /\ IsRegisterCall(c2)
        /\ calls[c1].name = calls[c2].name
        /\ calls[c1].address # calls[c2].address
        /\ calls[c1].version = "2" /\ calls[c2].version = "2"
        /\ calls[c1].found = {} /\ calls[c2].found = {}
        /\ calls[c1].enqLookup = 1 /\ calls[c2].enqLookup = 1
        /\ calls[c1].passed /\ calls[c2].passed
        /\ Succeeded(c1) /\ Succeeded(c2)

\* the version "2.5" case of C7: both registrations ran on the ledger
C7_WitnessLedger ==
    \E c1, c2 \in CallIds :
        /\ Overlapping(c1, c2)
        /\ IsRegisterCall(c1) /\ IsRegisterCall(c2)
        /\ calls[c1].name = calls[c2].name
        /\ calls[c1].address # calls[c2].address
        /\ calls[c1].version = "2.5" /\ calls[c2].version = "2.5"
        /\ Succeeded(c1) /\ Succeeded(c2)

\* the last call whose cache write of name succeeded (0 if none)
LastPut(name) ==
    LET puts == PutsOf(putLog, name) IN IF puts = <<>> THEN 0 ELSE puts[Len(puts)]

\* C8 as stated: a version "2" register that passed both duplicate checks has
\* written its Record, submitted no Register request and returned the stored
\* name, address and version without a transaction identifier.
C8_Web2AlwaysWrites ==
    \A c \in CallIds :
        IsRegisterCall(c) /\ calls[c].version = "2" /\ calls[c].passed
        /\ calls[c].pc = "done" =>
            /\ calls[c].dbWrites = 1
            /\ calls[c].enqRegister = 0
            /\ calls[c].resp = RegisterResponse(calls[c].name, calls[c].address, "2", None)

\* C8 amended: a version "2" register that passed both duplicate checks submits
\* no Register request and touches the ledger not at all; either its cache
\* write succeeded, the Record {name, address, "2"} is in the cache as long as
\* no later write of the name replaced it, and the response carries the stored
\* name, address and version without a transaction identifier, or the write
\* failed, nothing was written and the response is the store error.
C8_Web2 ==
    \A c \in CallIds :
        IsRegisterCall(c) /\ calls[c].version = "2" /\ calls[c].passed
        /\ calls[c].pc = "done" =>
            /\ calls[c].enqRegister = 0
            /\ calls[c].ledgerWrites = 0
            /\ \/ /\ calls[c].dbWrites = 1
                  /\ \E i \in DOMAIN putLog : putLog[i] = c
                  /\ LastPut(calls[c].name) = c =>
                        User(calls[c].name, calls[c].address, "2") \in db
                  /\ calls[c].resp =
                        RegisterResponse(calls[c].name, calls[c].address, "2", None)
               \/ /\ calls[c].dbWrites = 0
                  /\ \A i \in DOMAIN putLog : putLog[i] # c
                  /\ calls[c].resp = AppErrorDatabase("Failed to save user to database")

\* C8 witness: a version "2" register found both tiers free, wrote its Record
\* and returned it
C8_Witness ==
    \E c \in CallIds :
        /\ IsRegisterCall(c) /\ calls[c].version = "2" /\ calls[c].passed
        /\ calls[c].found = {} /\ ~calls[c].readErr
        /\ calls[c].enqLookup = 1 /\ chan[calls[c].rid].val.kind = "NotFound"
        /\ Succeeded(c)
        /\ db = {User(calls[c].name, calls[c].address, "2")}

\* C9: a version "2.5" register that passed both duplicate checks submitted
\* exactly one Register request and wrote nothing to the cache; when the
\* gateway replied with success, the response carries the name, the address,
\* version "2.5" and a transaction identifier (stated for the runs without any
\* environment failure).
C9_Web25 ==
    \A c \in CallIds :
        faults = 0 /\ IsRegisterCall(c) /\ calls[c].version = "2.5" /\ calls[c].passed
        /\ calls[c].pc = "done" =>
            /\ calls[c].enqRegister = 1
            /\ calls[c].dbWrites = 0
            /\ LET reply == chan[calls[c].rid] IN
               reply.sends = 1 /\ IsOk(reply.val) =>
                   /\ calls[c].resp.kind = "RegisterResponse"
                   /\ calls[c].resp.name = calls[c].name
                   /\ calls[c].resp.address = calls[c].address
                   /\ calls[c].resp.version = "2.5"
                   /\ calls[c].resp.transaction_id # None

\* C10: in runs without any environment failure, a lookup(n) that starts after
\* register(n, a, "2.5") returned success, with no other registration of n,
\* misses the cache, issues one ledger Lookup and returns {a, "2.5"}.
C10_RegisterThenLookup ==
    \A c1, c2 \in CallIds :
        /\ faults = 0
        /\ IsRegisterCall(c1) /\ Succeeded(c1) /\ calls[c1].version = "2.5"
        /\ IsLookupCall(c2) /\ c1 \in calls[c2].before
        /\ calls[c2].name = calls[c1].name
        /\ NoOtherRegistration(c1, c2)
        /\ calls[c2].pc = "done"
        => /\ calls[c2].found = {}
           /\ calls[c2].enqLookup = 1
           /\ calls[c2].resp = LookupResponse(calls[c1].address, "2.5")

\* a register call whose parameter checks passed
ValidRegisterCall(c) ==
    IsRegisterCall(c) /\ RegisterParamsError(calls[c].name, calls[c].address,
                                             calls[c].version) = NoResp

\* C11 as stated: a register for a name that has a Record in the cache at the
\* time of the call's cache read fails with the already-registered error and
\* enqueues neither a Lookup nor a Register request.
C11_CacheTierConflictAlways ==
    \A c \in CallIds :
        ValidRegisterCall(c) /\ calls[c].found # {} =>
            /\ calls[c].pc = "done"
            /\ calls[c].resp = AlreadyRegistered
            /\ calls[c].enqLookup = 0 /\ calls[c].enqRegister = 0

\* C11 amended: a register for a name that has a Record in the cache, whose
\* cache read does not fail, fails with the already-registered error, enqueues
\* neither a Lookup nor a Register request and writes nothing.
C11_CacheTierConflict ==
    \A c \in CallIds :
        ValidRegisterCall(c) /\ calls[c].found # {} /\ ~calls[c].readErr =>
            /\ calls[c].pc = "done"
            /\ calls[c].resp = AlreadyRegistered
            /\ calls[c].enqLookup = 0 /\ calls[c].enqRegister = 0
            /\ calls[c].dbWrites = 0 /\ calls[c].ledgerWrites = 0

\* C11 witness: a register rejected at the cache tier because of the Record an
\* earlier version "2" registration wrote, with nothing sent to the worker
C11_Witness ==
    \E c1, c2 \in CallIds :
        /\ IsRegisterCall(c1) /\ Succeeded(c1) /\ calls[c1].version = "2"
        /\ ValidRegisterCall(c2) /\ c1 \in calls[c2].before
        /\ calls[c2].found = {User(calls[c1].name, calls[c1].address, "2")}
        /\ calls[c2].resp = AlreadyRegistered
        /\ chan = <<[sends |-> 1, val |-> AppErrorNotFound("not registered"),
                     rxAlive |-> TRUE, txDropped |-> FALSE]>>

\* a register call that came to its ledger-tier check: its cache read gave no
\* Record
PastCacheTier(c) ==
    ValidRegisterCall(c) /\ calls[c].pc \notin {"sendDup"}
    /\ (calls[c].found = {} \/ calls[c].readErr)

\* C12: a register whose cache read gave no Record has issued exactly one
\* Lookup request for the ledger-tier check; when that Lookup succeeded the
\* call fails with the already-registered error, writes nothing to the cache
\* and submits no Register request; when it reported not found the call went on
\* to the dispatch by version (stated for the runs without any environment
\* failure).
C12_LedgerTierCheck ==
    \A c \in CallIds :
        faults = 0 /\ PastCacheTier(c) =>
            /\ calls[c].enqLookup = 1
            /\ calls[c].dupReply \in {"LookupResponse", "RegisterResponse"} =>
                  /\ calls[c].pc = "done"
                  /\ calls[c].resp = AlreadyRegistered
                  /\ calls[c].dbWrites = 0 /\ calls[c].enqRegister = 0
            /\ calls[c].dupReply = "NotFound" => calls[c].passed

\* C13: a call in which a ledger step failed with Internal, or the send of a
\* request or the receipt of its reply failed, returns an Internal error; the
\* ledger-tier duplicate check of register is no exception (stated for the
\* states in which the worker task is running).
C13_InternalNeverSwallowed ==
    \A c \in CallIds :
        ReceiverAlive /\ calls[c].pc = "done" /\ calls[c].sawFailure =>
            calls[c].resp.kind = "Internal"

\* a call with an empty or missing parameter
EmptyParameter(c) ==
    \/ IsLookupCall(c) /\ calls[c].name = <<>>
    \/ IsRegisterCall(c) /\ (calls[c].name = <<>> \/ calls[c].address = <<>>
                                \/ calls[c].version = "")

\* C14: a lookup with an empty name and a register with an empty name, address
\* or version have returned BadRequest, and have neither read nor written the
\* cache nor sent any request to the worker.
C14_BadRequestBeforeIO ==
    \A c \in CallIds :
        EmptyParameter(c) =>
            /\ calls[c].pc = "done"
            /\ calls[c].resp.kind = "BadRequest"
            /\ calls[c].dbReads = 0 /\ calls[c].dbWrites = 0
            /\ calls[c].enqLookup = 0 /\ calls[c].enqRegister = 0
            /\ calls[c].ledgerWrites = 0

\* C14 witness: a register without version and a lookup without name were both
\* turned down with the message of the parameter that is missing
C14_Witness ==
    /\ \E c \in CallIds :
          /\ IsRegisterCall(c) /\ calls[c].name = NameA /\ calls[c].address = AddrX
          /\ calls[c].version = ""
          /\ calls[c].resp = AppErrorBadRequest("Version parameter is required")
    /\ \E c \in CallIds :
          /\ IsLookupCall(c) /\ calls[c].name = <<>>
          /\ calls[c].resp = AppErrorBadRequest("Name parameter is required")

\* C15: a register with a non-empty version other than "2" and "2.5" returns
\* BadRequest, and does so before any cache read and before any request to the
\* worker (stated for the runs without any environment failure, the worker
\* task running).
C15_UnsupportedVersionBeforeIO ==
    \A c \in CallIds :
        faults = 0 /\ ReceiverAlive /\ ValidRegisterCall(c) /\ calls[c].version \notin {"2", "2.5"}
        /\ calls[c].pc = "done" =>
            /\ calls[c].resp.kind = "BadRequest"
            /\ calls[c].dbReads = 0
            /\ calls[c].enqLookup = 0 /\ calls[c].enqRegister = 0

\* the number of times x occurs in the sequence q
RECURSIVE Occurrences(_, _)
Occurrences(q, x) ==
    IF q = <<>> THEN 0
    ELSE (IF Head(q) = x THEN 1 ELSE 0) + Occurrences(Tail(q), x)

\* the number of requests call c has in the buffer or had taken by the worker
RECURSIVE RequestsOf(_, _)
RequestsOf(q, c) ==
    IF q = <<>> THEN 0
    ELSE (IF Head(q).call = c THEN 1 ELSE 0) + RequestsOf(Tail(q), c)

\* C16: a lookup call sends at most one request and a register call at most
\* one Lookup and then at most one Register; every request ever sent is one of
\* these, is in the buffer or taken by the worker at most once in all (never
\* in the buffer again once taken, also after a failure reply, a failed send
\* or a dropped reply channel), and gets at most one result.
C16_NoRetry ==
    /\ \A c \in CallIds :
          /\ calls[c].enqLookup <= 1 /\ calls[c].enqRegister <= 1
          /\ IsLookupCall(c) => calls[c].enqRegister = 0
          /\ calls[c].enqRegister = 1 /\ IsRegisterCall(c) => calls[c].dupReply # "none"
          /\ RequestsOf(queue, c) <= calls[c].enqLookup + calls[c].enqRegister
    /\ Len(chan) >= Len(queue) + Len(startLog)
    /\ \A id \in DOMAIN chan :
          /\ Occurrences(startLog, id) + Occurrences([i \in DOMAIN queue |-> queue[i].id], id) <= 1
          /\ chan[id].sends <= 1
    /\ LET Sum[k \in 0..MaxCalls] ==
               IF k = 0 THEN 0 ELSE Sum[k - 1] + calls[k].enqLookup + calls[k].enqRegister
       IN Len(chan) = Sum[MaxCalls]

\* C16 witness: a lookup whose ledger step failed has returned Internal, its
\* one request was taken once, and the worker is back at recv with an empty
\* buffer
C16_Witness ==
    \E c \in CallIds :
        /\ IsLookupCall(c) /\ calls[c].pc = "done" /\ calls[c].resp.kind = "Internal"
        /\ calls[c].enqLookup = 1
        /\ chan[calls[c].rid].val.kind = "Internal"
        /\ Occurrences(startLog, calls[c].rid) = 1
        /\ worker.pc = "recv" /\ queue = <<>>

\* C17: when a caller abandoned its request after sending it, the worker, once
\* it has taken that request and is through with it, has run the operation to
\* its end and sent the result (the send to the dropped receiver fails and is
\* ignored), and is still running to serve the requests that follow.
C17_AbandonedStillServed ==
    \A c \in CallIds :
        calls[c].pc = "abandoned" /\ Finished(calls[c].rid) =>
            /\ chan[calls[c].rid].sends = 1
            /\ ReceiverAlive

\* C18: a lookup whose cache read failed does not return the store error; it
\* has sent one Lookup request to the worker and returns the result the worker
\* sent.
C18_StoreFailureSoftMiss ==
    \A c \in CallIds :
        IsLookupCall(c) /\ calls[c].readErr /\ calls[c].pc = "done" =>
            /\ calls[c].resp.kind # "Database"
            /\ calls[c].enqLookup = 1
            /\ chan[calls[c].rid].sends = 1 => calls[c].resp = chan[calls[c].rid].val

\* C19: a version "2" register whose cache write failed has returned the store
\* error and never a success, is not among the writers of the cache, and the
\* cache holds a Record of its name only if another call wrote one.
C19_WriteFailureIsHardError ==
    \A c \in CallIds :
        calls[c].writeErr =>
            /\ IsRegisterCall(c) /\ calls[c].version = "2"
            /\ calls[c].pc = "done"
            /\ ~IsOk(calls[c].resp)
            /\ calls[c].resp = SaveFailed
            /\ calls[c].dbWrites = 0
            /\ \A i \in DOMAIN putLog : putLog[i] # c
            /\ LastPut(calls[c].name) = 0 => RowsOf(db, calls[c].name) = {}

\* C19 witness: a version "2" register found both tiers free, its write failed,
\* it returned the error and the cache is empty
C19_Witness ==
    \E c \in CallIds :
        /\ IsRegisterCall(c) /\ calls[c].version = "2"
        /\ calls[c].passed /\ calls[c].dupReply = "NotFound"
        /\ calls[c].writeErr
        /\ calls[c].resp = SaveFailed
        /\ db = {}

\* call c was turned down because its name is already registered, in the cache
\* or on the ledger
RejectedAsRegistered(c) ==
    /\ ValidRegisterCall(c) /\ calls[c].pc = "done"
    /\ \/ calls[c].found # {} /\ ~calls[c].readErr
       \/ calls[c].dupReply \in {"LookupResponse", "RegisterResponse"}

\* C20: the error class returned for a name that is already registered differs
\* from the class returned for a failed cache write and from BadRequest,
\* NotFound and Internal (stated for the runs without any environment failure).
C20_ConflictIsDistinct ==
    \A c \in CallIds :
        faults = 0 /\ RejectedAsRegistered(c) =>
            calls[c].resp.kind \notin {SaveFailed.kind, "BadRequest", "NotFound", "Internal"}

\* C21: for every text s of 0 to 24 bytes, word_to_str(str_to_word(s)) = s.
C21_RoundTrip ==
    codec.pc = "decoded" => Len(codec.s) <= 24 /\ codec.out = codec.s

\* C21 witness: the 24-byte text of test_max_length_unicode, which ends in two
\* three-byte scalars, came back unchanged
C21_Witness ==
    /\ codec.pc = "decoded"
    /\ Len(codec.s) = 24
    /\ SubSeq(codec.s, 19, 24) = <<228, 184, 150, 231, 149, 140>>
    /\ codec.out = codec.s

\* C22: for every text of more than 24 bytes str_to_word fails and returns no
\* word.
C22_EncodeRejectsLong ==
    Len(codec.s) > 24 /\ codec.pc # "input" => codec.pc = "panicked" /\ codec.word = <<>>

\* C22 witness: str_to_word failed on a text of exactly 25 bytes
C22_Witness == Len(codec.s) = 25 /\ codec.pc = "panicked" /\ codec.word = <<>>

\* the handler of call c waits for the reply to a request it sent
Awaiting(c) == calls[c].pc \in {"await", "awaitDup", "awaitRegister"}

\* the name and the address of call c fit a word
CallFits(c) == StrFits(calls[c].name) /\ StrFits(calls[c].address)

\* C23: a request with a name or an address of more than 24 bytes that the
\* worker has taken and is through with got an error reply, and the worker is
\* still running (stated for the runs without any environment failure).
C23_EncodingFailureSurfaced ==
    \A c \in CallIds :
        faults = 0 /\ ~CallFits(c) /\ calls[c].rid # 0 /\ Finished(calls[c].rid) =>
            /\ chan[calls[c].rid].sends = 1
            /\ ~IsOk(chan[calls[c].rid].val)
            /\ ReceiverAlive

\* C24: every request accepted into the queue whose name and address fit in
\* 24 bytes is eventually taken and has its reply sent.  Stated as what a
\* finite run can refute: the sender of the reply to such a request is never
\* dropped before a reply was sent, since after that no reply can ever follow
\* (runs without any environment failure).
C24_EveryRequestServed ==
    \A c \in CallIds :
        faults = 0 /\ CallFits(c) /\ calls[c].rid \in DOMAIN chan =>
            ~(chan[calls[c].rid].txDropped /\ chan[calls[c].rid].sends = 0)

\* C25: the cache holds at most one Record for each name, and the Record of a
\* name is the one of the last write of that name: a later write replaced the
\* earlier Record.
C25_OneRecordPerName ==
    /\ \A r1, r2 \in db : r1.name = r2.name => r1 = r2
    /\ \A c \in CallIds :
          c # 0 /\ LastPut(calls[c].name) = c =>
              RowsOf(db, calls[c].name) = {User(calls[c].name, calls[c].address, "2")}

\* C25 witness: two calls wrote a Record of the same name with different
\* addresses, and the cache holds one Record
C25_Witness ==
    /\ Len(putLog) = 2
    /\ calls[putLog[1]].name = calls[putLog[2]].name
    /\ calls[putLog[1]].address # calls[putLog[2]].address
    /\ Cardinality(db) = 1

\* C26: a step changes the content of the cache only if it is the write step
\* of a version "2" register that passed both duplicate checks, and then it
\* puts that call's Record; no step leaves a name that had a Record without
\* one.
C26_CacheFrame ==
    [][/\ db' # db =>
            \E c \in CallIds :
                /\ IsRegisterCall(c) /\ calls[c].pc = "dispatch"
                /\ calls[c].version = "2" /\ calls[c].passed
                /\ calls'[c].pc = "done"
                /\ calls'[c].dbWrites = calls[c].dbWrites + 1
                /\ User(calls[c].name, calls[c].address, "2") \in db'
       /\ \A r \in db : \E r2 \in db' : r2.name = r.name]_vars

\* C26 witness: after the write of a version "2" register, a version "2.5"
\* register of the same name ran to its end, rejected at the cache tier, and
\* the cache still holds the one Record
C26_Witness ==
    \E c1, c2 \in CallIds :
        /\ IsRegisterCall(c1) /\ Succeeded(c1) /\ calls[c1].version = "2"
        /\ IsRegisterCall(c2) /\ calls[c2].version = "2.5" /\ c1 \in calls[c2].before
        /\ calls[c2].pc = "done"
        /\ db = {User(calls[c1].name, calls[c1].address, "2")}

\* C27: every Record in the cache has version "2"; a successful lookup that
\* sent no request was answered from the cache and reports "2", one that sent
\* a request was answered by the ledger and reports "2.5".
C27_VersionIdentifiesTier ==
    /\ \A r \in db : r.version = "2"
    /\ \A c \in CallIds :
          IsLookupCall(c) /\ Succeeded(c) =>
              /\ calls[c].enqLookup = 0 =>
                    calls[c].found # {} /\ calls[c].resp.version = "2"
              /\ calls[c].enqLookup = 1 =>
                    /\ calls[c].resp = chan[calls[c].rid].val
                    /\ calls[c].resp.version = "2.5"

\* C27 witness: a lookup answered from the Record of a version "2" registration
\* reports "2"
C27_Witness ==
    \E c1, c2 \in CallIds :
        /\ IsRegisterCall(c1) /\ Succeeded(c1)
        /\ IsLookupCall(c2) /\ Succeeded(c2) /\ calls[c2].enqLookup = 0
        /\ db = {User(NameA, AddrX, "2")}
        /\ calls[c2].resp = LookupResponse(AddrX, "2")

\* the text the ledger holds for name, decoded
BoundText(name) == word_to_str(LedgerGet(ledger, str_to_word(name)))

\* C28: service::lookup decodes the first four stack elements in reversed
\* order, that is the word bound to the name; it returns NotFound when the
\* stack has fewer than four elements and when the decoded text is empty or
\* all-zero, and the decoded text with version "2.5" otherwise; a successful
\* reply of the worker to a Lookup request carries the bound text, not empty.
C28_LookupStackParsing ==
    /\ ServiceLookup(ledger, NameA, "shortStack").kind = "NotFound"
    /\ ServiceLookup(ledger, NameA, "ok") =
          IF BoundText(NameA) = <<>> \/ TrimIsEmpty(BoundText(NameA))
             \/ BoundText(NameA) = Zeros16
          THEN AppErrorNotFound("not registered")
          ELSE LookupResponse(BoundText(NameA), "2.5")
    /\ worker.pc = "respond" /\ worker.cur.kind = "Lookup" /\ IsOk(worker.result) =>
          /\ worker.result.address # <<>>
          /\ worker.result.address = BoundText(worker.cur.name)

\* C28 witness: the worker replies to a Lookup with the address a registration
\* bound on the ledger
C28_Witness ==
    /\ worker.pc = "respond" /\ worker.cur.kind = "Lookup"
    /\ worker.result = LookupResponse(AddrY, "2.5")
    /\ ledger # {}

\* C29: a register whose cache read failed did not return at the cache tier:
\* it went on to the ledger-tier check, returns the already-registered error
\* only when that check found the name, and with version "2" and a ledger-tier
\* Lookup that did not succeed it has attempted the cache write.
C29_StoreFailureInDuplicateCheck ==
    \A c \in CallIds :
        ValidRegisterCall(c) /\ calls[c].readErr =>
            /\ calls[c].dupReply = "none" =>
                  calls[c].pc \in {"sendDup", "awaitDup", "abandoned"}
            /\ calls[c].pc = "done" /\ calls[c].resp = AlreadyRegistered =>
                  calls[c].dupReply \in {"LookupResponse", "RegisterResponse"}
            /\ /\ calls[c].pc = "done" /\ calls[c].version = "2"
               /\ calls[c].dupReply \notin {"LookupResponse", "RegisterResponse"}
               => calls[c].dbWrites = 1 \/ calls[c].writeErr

\* C29 witness: a version "2" register whose cache read failed found the name
\* free on the ledger and wrote its Record
C29_Witness ==
    \E c \in CallIds :
        /\ IsRegisterCall(c) /\ calls[c].version = "2" /\ calls[c].readErr
        /\ calls[c].dupReply = "NotFound"
        /\ Succeeded(c)
        /\ User(calls[c].name, calls[c].address, "2") \in db

\* the handler of call c has started and not returned, and its caller is there
Running(c) == calls[c].pc \notin {"idle", "done", "abandoned"}

\* the client task can take a step: it holds a request or a result, or it is
\* at recv() and the queue holds a request
WorkerCanStep ==
    \/ worker.pc \in {"exec", "respond"}
    \/ WorkerReady /\ queue # <<>>

\* the handler of call c can take a step: its send finds room in the queue or
\* fails at once because the receiver is gone, its reply channel is resolved,
\* or it is at the dispatch by version
HandlerCanStep(c) ==
    \/ calls[c].pc \in {"send", "sendDup"} /\ (Len(queue) < QueueCap \/ ~ReceiverAlive)
    \/ calls[c].pc = "dispatch" /\ calls[c].version = "2.5"
          /\ (Len(queue) < QueueCap \/ ~ReceiverAlive)
    \/ calls[c].pc = "dispatch" /\ calls[c].version # "2.5"
    \/ Awaiting(c) /\ Resolved(calls[c].rid)

C31_ValidationBeforeLedger ==
    svc.pc = "done" /\ (svc.name = <<>> \/ (svc.op = "register" /\ svc.address = <<>>)) =>
        /\ svc.result.kind = "BadRequest"
        /\ svc.clientCalls = <<>>
        /\ ledger = svc.store

\* C31 witness: service::register has run with a name and an empty address
\* while the node could not be synced with, and returned BadRequest without a
\* call on the client
C31_Witness ==
    /\ svc.pc = "done"
    /\ svc.op = "register"
    /\ svc.name = NameA
    /\ svc.address = <<>>
    /\ svc.env = "syncFail"
    /\ svc.result = AppErrorBadRequest("Address cannot be empty")
    /\ svc.clientCalls = <<>>

\* the 32 bytes of a word: its four fields in big-endian order, one after another
FieldBytes(w) == w[1] \o w[2] \o w[3] \o w[4]

\* C32: for every input of N <= 24 bytes, the 32 bytes of str_to_word's result
\* have the input in bytes 0..N-1, zero in bytes N..30 and N in byte 31; and
\* the text word_to_str returns is the first N' bytes of the 32, N' being the
\* value of byte 31.
C32_WordLayout ==
    /\ Len(codec.s) <= 24 /\ codec.pc \in {"encoded", "decoded"} =>
          LET b == FieldBytes(codec.word)
              N == Len(codec.s)
          IN /\ Len(b) = 32
             /\ SubSeq(b, 1, N) = codec.s
             /\ \A i \in (N + 1)..31 : b[i] = 0
             /\ b[32] = N
    /\ codec.pc = "decoded" =>
          LET b == FieldBytes(codec.word)
          IN Len(codec.out) = b[32] /\ codec.out = SubSeq(b, 1, b[32])

\* C32 witness: "mirko.miden" (11 bytes) has been encoded and decoded: the text
\* fills the first field and three bytes of the second, the third is zero and
\* the fourth holds 11 in its last byte
C32_Witness ==
    /\ codec.pc = "decoded"
    /\ codec.s = <<109, 105, 114, 107, 111, 46, 109, 105, 100, 101, 110>>
    /\ codec.word = <<(<<109, 105, 114, 107, 111, 46, 109, 105>>),
                      (<<100, 101, 110, 0, 0, 0, 0, 0>>),
                      Rep(0, 8),
                      (<<0, 0, 0, 0, 0, 0, 0, 11>>)>>
    /\ codec.out = codec.s

====
